---- MODULE Spec2Model ----
(***************************************************************************)
(* Vault policy privilege-escalation checker (initZ3Checker and the        *)
(* functions it closes over): comparePathPriority, buildRegexFromPath,     *)
(* buildCapabilitiesMatch, buildPolicyMatch, checkPrivilegeEscalation.     *)
(*                                                                         *)
(* A JavaScript string is modelled as a sequence of one-character strings, *)
(* so that indexOf, endsWith, split and length are computed, not assumed.  *)
(***************************************************************************)
EXTENDS Integers, Sequences, FiniteSets, TLC

VARIABLES
    \* comparePathPriority(path1, path2)
    path1, path2, cmpOut,
    \* buildRegexFromPath(ctx, path) and a string tested against its language
    rePath, reStr, reOut,
    \* buildPolicyMatch(ctx, inputPath, inputCap, rules)
    polRules, polOut,
    \* checkPrivilegeEscalation(currentRules, newRules)
    currentRules, newRules, pc, held, released, z3PolicyAst, solverResult, ret,
    \* hclPathsToMap(hclPaths)
    hclPaths, hclOut,
    \* several checkPrivilegeEscalation calls in flight: each call's locals,
    \* and the objects of the Z3 module they share
    calls, z3Objects,
    \* EscalationPolicyChecker: the component's state (useState), the
    \* initZ3Checker promise of useEffect, and the handleCheck runs: hc is
    \* the position of the run executing, objs its locals
    \* currentPolicyObject and newPolicyObject, pending the
    \* checkPrivilegeEscalation promises awaited, exit the way the last run
    \* ended; currentPolicyText and newPolicyText are the states
    \* currentPolicy and newPolicy (the text areas)
    checker, isLoading, isChecking, error, currentPolicyText, newPolicyText,
    policyCheckResults, initZ3, hc, objs, pending, exit

cmpVars == <<path1, path2, cmpOut>>
reVars  == <<rePath, reStr, reOut>>
polVars == <<polRules, polOut>>
chkVars == <<currentRules, newRules, pc, held, released, z3PolicyAst, solverResult, ret>>
hclVars == <<hclPaths, hclOut>>
\* The variables of the front-end side (the parser hand-off).
conVars == <<calls, z3Objects>>
uiVars  == <<checker, isLoading, isChecking, error, currentPolicyText, newPolicyText,
             policyCheckResults, initZ3, hc, objs, pending, exit>>
extVars == <<hclVars, conVars, uiVars>>
vars    == <<cmpVars, reVars, polVars, chkVars, extVars>>

\* The value of a variable the specification at hand does not use, and of a
\* result not yet computed (a computed result r is held as <<r>>).
None == <<>>

----------------------------------------------------------------------------
\* Bounds of the model.

\* Longest pattern given to comparePathPriority.
MaxCmpLen == 2
\* Longest pattern given to buildRegexFromPath.
MaxPatLen == 3
\* Longest string tested against a compiled pattern / tried by the solver.
MaxStrLen == 3
\* Most rules in a policy given to buildPolicyMatch.
MaxRules == 2

\* Characters patterns are drawn from: two letters, the separator and the
\* two wildcards.
PatternChars == {"a", "b", "/", "+", "*"}
\* Characters of the patterns given to comparePathPriority (the separator is
\* one more literal to it).
CmpChars == {"a", "b", "+", "*"}
\* Characters of the strings tested against a compiled pattern: the same
\* letters, the separator, and "*" (a character outside the wildcard classes).
StringChars == {"a", "b", "/", "*"}
\* Characters of the values the solver tries for the constant "path".
PathChars == {"a", "b", "/"}

RECURSIVE StringsUpTo(_, _)
StringsUpTo(chars, n) ==
    IF n = 0 THEN {<<>>}
    ELSE LET shorter == StringsUpTo(chars, n - 1)
         IN  shorter \cup {Append(s, c) : s \in shorter, c \in chars}

----------------------------------------------------------------------------
\* JavaScript string and number primitives used by the code.

\* Numbers extended with +Infinity and -Infinity: inf is the sign of an
\* infinite value (0 for a finite one), n the finite value.
Fin(n) == [inf |-> 0, n |-> n]
Infinity == [inf |-> 1, n |-> 0]

\* a - b for a, b finite or +Infinity, not both infinite (the code guards
\* the subtraction with a !== b).
NumSub(a, b) ==
    IF a.inf = 0 /\ b.inf = 0 THEN Fin(a.n - b.n)
    ELSE IF a.inf # 0 THEN [inf |-> a.inf, n |-> 0]
    ELSE [inf |-> -b.inf, n |-> 0]

NumNeg(a) == [inf |-> -a.inf, n |-> -a.n]

\* -1, 0 or 1.
NumSign(a) ==
    IF a.inf # 0 THEN a.inf
    ELSE IF a.n > 0 THEN 1 ELSE IF a.n < 0 THEN -1 ELSE 0

\* Math.min of two such numbers.
MathMin(a, b) ==
    IF a.inf = 1 THEN b
    ELSE IF b.inf = 1 THEN a
    ELSE IF a.n <= b.n THEN a ELSE b

\* s.indexOf(c), 0-based, -1 when absent.
IndexOf(s, c) ==
    IF \E i \in 1..Len(s) : s[i] = c
    THEN (CHOOSE i \in 1..Len(s) : s[i] = c /\ \A j \in 1..(i - 1) : s[j] # c) - 1
    ELSE -1

\* s.endsWith(c) for a one-character c.
EndsWith(s, c) == Len(s) > 0 /\ s[Len(s)] = c

\* (s.match(/\+/g) || []).length
PlusCount(s) == Cardinality({i \in 1..Len(s) : s[i] = "+"})

\* The position of a character in the collation String.prototype.localeCompare
\* uses (CLDR root order: punctuation "*" "/", then the symbol "+", then
\* letters).
CollationRank(c) ==
    CASE c = "*" -> 1
      [] c = "/" -> 2
      [] c = "+" -> 3
      [] c = "a" -> 4
      [] c = "b" -> 5

RECURSIVE CollateFrom(_, _, _)
CollateFrom(s, t, i) ==
    IF i > Len(s) /\ i > Len(t) THEN 0
    ELSE IF i > Len(s) THEN -1
    ELSE IF i > Len(t) THEN 1
    ELSE IF CollationRank(s[i]) < CollationRank(t[i]) THEN -1
    ELSE IF CollationRank(s[i]) > CollationRank(t[i]) THEN 1
    ELSE CollateFrom(s, t, i + 1)

\* s.localeCompare(t): negative when s sorts before t.
LocaleCompare(s, t) == CollateFrom(s, t, 1)

----------------------------------------------------------------------------
\* comparePathPriority

FirstWildcard(p) ==
    MathMin(IF IndexOf(p, "+") > -1 THEN Fin(IndexOf(p, "+")) ELSE Infinity,
            IF IndexOf(p, "*") > -1 THEN Fin(IndexOf(p, "*")) ELSE Infinity)

\* Two faulty variants of comparePathPriority: rule 5 with its operands
\* exchanged, and rule 5 left out.
ComparePathPriorityRule5Swapped(p, q) ==
    IF FirstWildcard(p) # FirstWildcard(q)
    THEN NumSub(FirstWildcard(p), FirstWildcard(q))
    ELSE IF EndsWith(p, "*") # EndsWith(q, "*")
    THEN Fin(IF EndsWith(p, "*") THEN -1 ELSE 1)
    ELSE IF PlusCount(p) # PlusCount(q)
    THEN Fin(PlusCount(q) - PlusCount(p))
    ELSE IF Len(p) # Len(q)
    THEN Fin(Len(p) - Len(q))
    ELSE Fin(LocaleCompare(p, q))

ComparePathPriorityNoRule5(p, q) ==
    IF FirstWildcard(p) # FirstWildcard(q)
    THEN NumSub(FirstWildcard(p), FirstWildcard(q))
    ELSE IF EndsWith(p, "*") # EndsWith(q, "*")
    THEN Fin(IF EndsWith(p, "*") THEN -1 ELSE 1)
    ELSE IF PlusCount(p) # PlusCount(q)
    THEN Fin(PlusCount(q) - PlusCount(p))
    ELSE Fin(Len(p) - Len(q))

comparePathPriority(p, q) ==
    IF FirstWildcard(p) # FirstWildcard(q)
    THEN NumSub(FirstWildcard(p), FirstWildcard(q))
    ELSE IF EndsWith(p, "*") # EndsWith(q, "*")
    THEN Fin(IF EndsWith(p, "*") THEN -1 ELSE 1)
    ELSE IF PlusCount(p) # PlusCount(q)
    THEN Fin(PlusCount(q) - PlusCount(p))
    ELSE IF Len(p) # Len(q)
    THEN Fin(Len(p) - Len(q))
    ELSE Fin(LocaleCompare(q, p))

\* The variables of the operations a specification does not exercise.
IdleCmp == path1 = None /\ path2 = None /\ cmpOut = None
IdleRe  == rePath = None /\ reStr = None /\ reOut = None
IdlePol == polRules = None /\ polOut = None
IdleChk ==
    /\ currentRules = None /\ newRules = None /\ pc = None /\ held = None
    /\ released = None /\ z3PolicyAst = None /\ solverResult = None /\ ret = None
IdleHcl == hclPaths = None /\ hclOut = None
IdleCon == calls = None /\ z3Objects = None
IdleUi ==
    /\ checker = None /\ isLoading = None /\ isChecking = None /\ error = None
    /\ currentPolicyText = None /\ newPolicyText = None /\ policyCheckResults = None
    /\ initZ3 = None /\ hc = None /\ objs = None /\ pending = None /\ exit = None
IdleExt == IdleHcl /\ IdleCon /\ IdleUi

\* The patterns comparePathPriority is applied to.
CmpPatterns == StringsUpTo(CmpChars, MaxCmpLen)

InitPriority ==
    /\ path1 \in CmpPatterns
    /\ path2 \in CmpPatterns
    /\ cmpOut = None
    /\ IdleRe /\ IdlePol /\ IdleChk /\ IdleExt

\* One call comparePathPriority(path1, path2).
Compare ==
    /\ cmpOut = None
    /\ cmpOut' = <<comparePathPriority(path1, path2)>>
    /\ UNCHANGED <<path1, path2, reVars, polVars, chkVars, extVars>>

NextPriority == Compare

SpecPriority == InitPriority /\ [][NextPriority]_vars

\* p has higher priority than q.
Higher(p, q) == NumSign(comparePathPriority(p, q)) = 1

\* C5: comparePathPriority is a strict total order on patterns: a pattern
\* compares 0 with itself, two distinct patterns never compare 0,
\* compare(p, q) = -compare(q, p), and "higher priority" is transitive.
C5_StrictTotalOrder ==
    cmpOut # None =>
        /\ (path1 = path2 => NumSign(cmpOut[1]) = 0)
        /\ (path1 # path2 => NumSign(cmpOut[1]) # 0)
        /\ cmpOut[1] = NumNeg(comparePathPriority(path2, path1))
        /\ \A r \in CmpPatterns :
              (NumSign(cmpOut[1]) = 1 /\ Higher(path2, r)) => Higher(path1, r)

\* C5 witness: two distinct patterns that rules 1-4 do not tell apart have
\* been compared.
C5_Witness ==
    /\ cmpOut # None
    /\ path1 = <<"+", "a">>
    /\ path2 = <<"+", "b">>
    /\ NumSign(cmpOut[1]) = 1

----------------------------------------------------------------------------
\* The five tie-breakers as the specification words them.

IsWildcardChar(c) == c = "+" \/ c = "*"
HasWildcard(p) == \E i \in 1..Len(p) : IsWildcardChar(p[i])
LiteralPrefixLen(p) ==
    CHOOSE n \in 0..Len(p) :
        /\ \A i \in 1..n : ~IsWildcardChar(p[i])
        /\ (n < Len(p) => IsWildcardChar(p[n + 1]))
\* R1: p's first wildcard comes later than q's (none: +infinity).
R1Wins(p, q) ==
    /\ HasWildcard(q)
    /\ (HasWildcard(p) => LiteralPrefixLen(p) > LiteralPrefixLen(q))
\* R2: p has no trailing "*" and q has one.
R2Wins(p, q) == ~EndsWith(p, "*") /\ EndsWith(q, "*")
\* R3: p has fewer "+".
R3Wins(p, q) == PlusCount(p) < PlusCount(q)
\* R4: p is longer.
R4Wins(p, q) == Len(p) > Len(q)
\* R5: p is lexicographically smaller.
R5Wins(p, q) ==
    \E i \in 1..(Len(q) + 1) :
        /\ i - 1 <= Len(p)
        /\ \A j \in 1..(i - 1) : j <= Len(q) /\ p[j] = q[j]
        /\ \/ i = Len(p) + 1 /\ i <= Len(q)
           \/ i <= Len(p) /\ i <= Len(q) /\ CollationRank(p[i]) < CollationRank(q[i])

\* The number (1..5) of the first rule that tells p and q apart, 0 if none.
FirstRule(p, q) ==
    IF R1Wins(p, q) \/ R1Wins(q, p) THEN 1
    ELSE IF R2Wins(p, q) \/ R2Wins(q, p) THEN 2
    ELSE IF R3Wins(p, q) \/ R3Wins(q, p) THEN 3
    ELSE IF R4Wins(p, q) \/ R4Wins(q, p) THEN 4
    ELSE IF R5Wins(p, q) \/ R5Wins(q, p) THEN 5
    ELSE 0

RuleWins(n, p, q) ==
    CASE n = 1 -> R1Wins(p, q)
      [] n = 2 -> R2Wins(p, q)
      [] n = 3 -> R3Wins(p, q)
      [] n = 4 -> R4Wins(p, q)
      [] n = 5 -> R5Wins(p, q)
      [] OTHER -> FALSE

C15_DocCommentRule5 ==
    (/\ cmpOut # None
     /\ FirstRule(path1, path2) = 5
     /\ R5Wins(path1, path2))
    => NumSign(cmpOut[1]) = -1

----------------------------------------------------------------------------
\* buildRegexFromPath

\* The characters of wildcardRanges(): [a-z], [A-Z], [0-9], "-", "_", ".".
wildcardRanges ==
    {"a", "b", "c", "d", "e", "f", "g", "h", "i", "j", "k", "l", "m",
     "n", "o", "p", "q", "r", "s", "t", "u", "v", "w", "x", "y", "z",
     "A", "B", "C", "D", "E", "F", "G", "H", "I", "J", "K", "L", "M",
     "N", "O", "P", "Q", "R", "S", "T", "U", "V", "W", "X", "Y", "Z",
     "0", "1", "2", "3", "4", "5", "6", "7", "8", "9", "-", "_", "."}

\* The separator the regular expression /([+]|\*$)/ matches at position q
\* (1-based) of path: a "+", or a "*" that ends the string.
IsSeparatorAt(path, q) ==
    path[q] = "+" \/ (path[q] = "*" /\ q = Len(path))

\* path.split(/([+]|\*$)/) from position q on, the current piece starting
\* at position p: the pieces between separators, and each separator (the
\* capture group) after the piece it ends.
RECURSIVE SplitFrom(_, _, _, _)
SplitFrom(path, q, p, parts) ==
    IF q > Len(path) THEN Append(parts, SubSeq(path, p, Len(path)))
    ELSE IF IsSeparatorAt(path, q)
    THEN SplitFrom(path, q + 1, q + 1,
                   parts \o <<SubSeq(path, p, q - 1), <<path[q]>>>>)
    ELSE SplitFrom(path, q + 1, p, parts)

Split(path) == SplitFrom(path, 1, 1, <<>>)

\* The regular expressions the loop over the parts pushes: a part equal to
\* "*" gives (wildcardRanges | "/")*, a part equal to "+" gives
\* (wildcardRanges)+, any other non-empty part its literal, an empty part
\* nothing.
RECURSIVE RegexParts(_, _)
RegexParts(parts, i) ==
    IF i > Len(parts) THEN <<>>
    ELSE LET part == parts[i]
             head == IF part = <<"*">> THEN <<[kind |-> "star", str |-> <<>>]>>
                     ELSE IF part = <<"+">> THEN <<[kind |-> "plus", str |-> <<>>]>>
                     ELSE IF part # <<>> THEN <<[kind |-> "lit", str |-> part]>>
                     ELSE <<>>
         IN  head \o RegexParts(parts, i + 1)

\* reParts[0] of an empty array.
Undefined == [kind |-> "undefined"]

buildRegexFromPath(path) ==
    LET reParts == RegexParts(Split(path), 1)
    IN  IF Len(reParts) < 2
        THEN IF Len(reParts) = 0 THEN Undefined ELSE reParts[1]
        ELSE [kind |-> "concat", parts |-> reParts]

\* The language of a regular expression (the solver's seq.in_re): whether
\* s from position j on is in the language of parts[i..].
RECURSIVE InParts(_, _, _, _)
InParts(parts, i, s, j) ==
    IF i > Len(parts) THEN j > Len(s)
    ELSE CASE parts[i].kind = "star" ->
                \E k \in j..(Len(s) + 1) :
                    /\ \A m \in j..(k - 1) : s[m] \in wildcardRanges \cup {"/"}
                    /\ InParts(parts, i + 1, s, k)
           [] parts[i].kind = "plus" ->
                \E k \in (j + 1)..(Len(s) + 1) :
                    /\ \A m \in j..(k - 1) : s[m] \in wildcardRanges
                    /\ InParts(parts, i + 1, s, k)
           [] parts[i].kind = "lit" ->
                LET n == Len(parts[i].str)
                IN  /\ j + n - 1 <= Len(s)
                    /\ SubSeq(s, j, j + n - 1) = parts[i].str
                    /\ InParts(parts, i + 1, s, j + n)

\* s is in the language of re (re is not Undefined).
InRe(s, re) ==
    IF re.kind = "concat" THEN InParts(re.parts, 1, s, 1)
    ELSE InParts(<<re>>, 1, s, 1)

\* The patterns compiled and the strings tested.
RegexPatterns == StringsUpTo(PatternChars, MaxPatLen) \ {<<>>}
Strings == StringsUpTo(StringChars, MaxStrLen)

InitRegex ==
    /\ rePath \in RegexPatterns
    /\ reStr \in Strings
    /\ reOut = None
    /\ IdleCmp /\ IdlePol /\ IdleChk /\ IdleExt

\* buildRegexFromPath(ctx, rePath).
BuildRegex ==
    /\ reOut = None
    /\ reOut' = <<buildRegexFromPath(rePath)>>
    /\ UNCHANGED <<rePath, reStr, cmpVars, polVars, chkVars, extVars>>

\* The solver decides reStr \in L(regex) (mk_seq_in_re).
MatchString ==
    /\ Len(reOut) = 1
    /\ reOut' = Append(reOut, InRe(reStr, reOut[1]))
    /\ UNCHANGED <<rePath, reStr, cmpVars, polVars, chkVars, extVars>>

NextRegex == BuildRegex \/ MatchString

SpecRegex == InitRegex /\ [][NextRegex]_vars

\* The language the specification gives a pattern: each "+" stands for one
\* or more characters of L (wildcardRanges), a "*" in final position for
\* zero or more characters of L or "/", every other character for itself.
RECURSIVE SpecMatchesFrom(_, _, _, _)
SpecMatchesFrom(p, i, s, j) ==
    IF i > Len(p) THEN j > Len(s)
    ELSE IF p[i] = "+"
    THEN \E k \in (j + 1)..(Len(s) + 1) :
            /\ \A m \in j..(k - 1) : s[m] \in wildcardRanges
            /\ SpecMatchesFrom(p, i + 1, s, k)
    ELSE IF p[i] = "*" /\ i = Len(p)
    THEN \A m \in j..Len(s) : s[m] \in wildcardRanges \cup {"/"}
    ELSE /\ j <= Len(s)
         /\ s[j] = p[i]
         /\ SpecMatchesFrom(p, i + 1, s, j + 1)

SpecMatches(p, s) == SpecMatchesFrom(p, 1, s, 1)

\* C10: a string is in the language of buildRegexFromPath(p) exactly when it
\* is obtained from p by replacing each "+" with one or more characters of L
\* and a trailing "*" with zero or more characters of L or "/", every other
\* character (a non-final "*" included) standing for itself.
C10_RegexLanguage ==
    Len(reOut) = 2 => (reOut[2] = SpecMatches(rePath, reStr))

----------------------------------------------------------------------------
\* buildCapabilitiesMatch, buildPolicyMatch

\* A policy (the rules object) is the sequence of its entries in insertion
\* order, the order Object.keys gives: each entry a pattern and its
\* capability list, no pattern twice.
Capabilities == {"read", "write", "deny"}
CapLists == {{"read"}, {"read", "write"}, {"deny"}, {"read", "deny"}, {}}
PolicyPaths ==
    { <<"a", "/", "*">>, <<"a", "/", "+">>, <<"a", "/", "b">>,
      <<"+", "/", "b">>, <<>> }
Rules == [path : PolicyPaths, capabilities : CapLists]

RECURSIVE PoliciesOfLen(_)
PoliciesOfLen(n) ==
    IF n = 0 THEN {<<>>}
    ELSE {Append(P, r) : P \in PoliciesOfLen(n - 1), r \in Rules}

DistinctPaths(P) == \A i, j \in 1..Len(P) : i # j => P[i].path # P[j].path

Policies ==
    UNION {{P \in PoliciesOfLen(n) : DistinctPaths(P)} : n \in 0..MaxRules}

\* rules[p]
CapsOf(rules, p) ==
    rules[CHOOSE i \in 1..Len(rules) : rules[i].path = p].capabilities

\* Object.keys(rules)
Keys(rules) == [i \in 1..Len(rules) |-> rules[i].path]

\* Array.prototype.sort(comparePathPriority): a stable sort that puts a
\* before b when the comparator's result for (a, b) is negative, i.e. the
\* lowest priority first. InsertSorted puts x behind the last element that
\* does not compare greater than x.
InsertSorted(sorted, x) ==
    LET notAfter == {j \in 1..Len(sorted) :
                       NumSign(comparePathPriority(sorted[j], x)) <= 0}
        k == IF notAfter = {} THEN 0
             ELSE CHOOSE j \in notAfter : \A m \in notAfter : m <= j
    IN  SubSeq(sorted, 1, k) \o <<x>> \o SubSeq(sorted, k + 1, Len(sorted))

RECURSIVE SortPrefix(_, _)
SortPrefix(paths, n) ==
    IF n = 0 THEN <<>> ELSE InsertSorted(SortPrefix(paths, n - 1), paths[n])

\* Faulty variant: the order the comment above the call announces ("from
\* highest priority to lowest").
SortPathsHighestFirst(paths) ==
    LET asc == SortPrefix(paths, Len(paths))
    IN  [i \in 1..Len(asc) |-> asc[Len(asc) + 1 - i]]

\* allowPaths.sort(comparePathPriority)
SortPaths(paths) == SortPrefix(paths, Len(paths))

False == [kind |-> "false"]

buildCapabilitiesMatch(capabilities) ==
    LET capMatches == capabilities \ {"deny"}
    IN  IF capMatches = {} THEN False
        ELSE [kind |-> "or", caps |-> capMatches]

\* Faulty variant: only a rule whose list is exactly ["deny"] counts as a
\* deny rule.
DenyPathsOnlyPureDeny(rules) ==
    SelectSeq(Keys(rules), LAMBDA p : CapsOf(rules, p) = {"deny"})

\* allPaths.filter(p => rules[p].includes('deny'))
DenyPaths(rules) ==
    SelectSeq(Keys(rules), LAMBDA p : "deny" \in CapsOf(rules, p))

\* allPaths.filter(p => rules[p].some(c => c !== 'deny'))
AllowPaths(rules) ==
    SelectSeq(Keys(rules), LAMBDA p : \E c \in CapsOf(rules, p) : c # "deny")

\* Z3.mk_seq_in_re(ctx, inputPath, buildRegexFromPath(ctx, p))
PathMatches(p) == [kind |-> "in_re", path |-> p, re |-> buildRegexFromPath(p)]

\* The loop over sortedAllowPaths: each pattern wraps what was built so
\* far, so the pattern iterated last is tested first (outermost).
RECURSIVE Cascade(_, _, _)
Cascade(rules, sorted, n) ==
    IF n = 0 THEN False
    ELSE [kind |-> "ite",
          cond |-> PathMatches(sorted[n]),
          then |-> buildCapabilitiesMatch(CapsOf(rules, sorted[n])),
          else |-> Cascade(rules, sorted, n - 1)]

\* The formula buildPolicyMatch returns, isAllowed AND NOT isDenied; threw
\* when a pattern compiles to no regular expression (the empty pattern) and
\* mk_seq_in_re is called on it.
buildPolicyMatch(rules) ==
    LET denyPaths == DenyPaths(rules)
        sortedAllowPaths == SortPaths(AllowPaths(rules))
        compiled == {denyPaths[i] : i \in 1..Len(denyPaths)}
                    \cup {sortedAllowPaths[i] : i \in 1..Len(sortedAllowPaths)}
    IN  IF \E p \in compiled : buildRegexFromPath(p) = Undefined
        THEN [threw |-> TRUE]
        ELSE [threw |-> FALSE,
              isDenied |-> [i \in 1..Len(denyPaths) |-> PathMatches(denyPaths[i])],
              isAllowed |-> Cascade(rules, sortedAllowPaths, Len(sortedAllowPaths))]

----------------------------------------------------------------------------
\* The meaning of the formulas: their truth value under an interpretation
\* of the constants "path" and "cap".

\* The values the solver tries for "path".
Paths == StringsUpTo(PathChars, MaxStrLen)

\* The values of "path" in the language of each regular expression a
\* policy's patterns compile to (InRe, tabulated once).
Language ==
    [re \in {buildRegexFromPath(p) : p \in PolicyPaths} \ {Undefined} |->
        {path \in Paths : InRe(path, re)}]

EvalInRe(e, path) == path \in Language[e.re]

EvalCaps(e, cap) == e.kind = "or" /\ cap \in e.caps

RECURSIVE EvalAllowed(_, _, _)
EvalAllowed(e, path, cap) ==
    IF e.kind = "false" THEN FALSE
    ELSE IF EvalInRe(e.cond, path) THEN EvalCaps(e.then, cap)
    ELSE EvalAllowed(e.else, path, cap)

EvalDenied(ds, path) == \E i \in 1..Len(ds) : EvalInRe(ds[i], path)

\* Z3.mk_and(ctx, [isAllowed, Z3.mk_not(ctx, isDenied)])
EvalPolicy(f, path, cap) ==
    EvalAllowed(f.isAllowed, path, cap) /\ ~EvalDenied(f.isDenied, path)

InitPolicy ==
    /\ polRules \in Policies
    /\ polOut = None
    /\ IdleCmp /\ IdleRe /\ IdleChk /\ IdleExt

\* buildPolicyMatch(ctx, inputPath, inputCap, polRules)
BuildPolicyMatch ==
    /\ polOut = None
    /\ polOut' = <<buildPolicyMatch(polRules)>>
    /\ UNCHANGED <<polRules, cmpVars, reVars, chkVars, extVars>>

NextPolicy == BuildPolicyMatch

SpecPolicy == InitPolicy /\ [][NextPolicy]_vars

\* The values of "path" a pattern matches: those in the language of the
\* regular expression buildRegexFromPath compiles it to.
PatternLanguage ==
    [p \in PolicyPaths \ {<<>>} |->
        {path \in Paths : InRe(path, buildRegexFromPath(p))}]

Matches(p, path) == path \in PatternLanguage[p]

\* The formula has been built (the construction did not throw).
PolicyBuilt == polOut # None /\ ~polOut[1].threw

\* The patterns of the policy's rules that list a capability other than
\* deny and whose language (buildRegexFromPath) holds the path.
MatchingAllow(rules, path) ==
    {i \in 1..Len(rules) :
        /\ rules[i].capabilities \ {"deny"} # {}
        /\ Matches(rules[i].path, path)}

\* The rule of highest priority among those.
TopRule(rules, path) ==
    CHOOSE i \in MatchingAllow(rules, path) :
        \A j \in MatchingAllow(rules, path) \ {i} :
            Higher(rules[i].path, rules[j].path)

\* The policy without its last rule, and that rule.
Front(rules) == SubSeq(rules, 1, Len(rules) - 1)
Last(rules) == rules[Len(rules)]

\* The last rule's grants are, on every path its pattern matches, among
\* those the rules before it already allow there.
LastRuleAddsNoGrant(rules) ==
    /\ Len(rules) >= 2
    /\ Last(rules).capabilities \ {"deny"} # {}
    /\ ~buildPolicyMatch(rules).threw
    /\ \A path \in Paths :
          Matches(Last(rules).path, path) =>
              \A cap \in Last(rules).capabilities \ {"deny"} :
                  EvalAllowed(buildPolicyMatch(Front(rules)).isAllowed, path, cap)

\* C3: the allow cascade grants, on every path, exactly the non-deny
\* capabilities of the highest-priority allow pattern matching the path
\* (lower-priority matches are shadowed), and its outermost if-then-else
\* tests the highest-priority allow pattern of the policy. In particular a
\* policy extended by a rule whose grants the earlier rules already allow
\* on every path it matches grants nothing the policy did not grant.
C3_HighestPriorityGoverns ==
    PolicyBuilt =>
        /\ LastRuleAddsNoGrant(polRules) =>
              \A path \in Paths, cap \in Capabilities :
                  EvalPolicy(polOut[1], path, cap) =>
                      EvalPolicy(buildPolicyMatch(Front(polRules)), path, cap)
        /\ \A path \in Paths, cap \in Capabilities :
              EvalAllowed(polOut[1].isAllowed, path, cap)
                = /\ MatchingAllow(polRules, path) # {}
                  /\ cap \in polRules[TopRule(polRules, path)].capabilities \ {"deny"}
        /\ polOut[1].isAllowed.kind = "ite" =>
              \A i \in 1..Len(polRules) :
                  (/\ polRules[i].capabilities \ {"deny"} # {}
                   /\ polRules[i].path # polOut[1].isAllowed.cond.path)
                  => Higher(polOut[1].isAllowed.cond.path, polRules[i].path)

\* C3 witness: two allow patterns match "a/b", the lower-priority wildcard
\* grants write, the higher-priority literal does not, and write is not
\* allowed on "a/b".
C3_Witness ==
    /\ PolicyBuilt
    /\ polRules = << [path |-> <<"a", "/", "b">>, capabilities |-> {"read"}],
                     [path |-> <<"a", "/", "*">>, capabilities |-> {"read", "write"}] >>
    /\ MatchingAllow(polRules, <<"a", "/", "b">>) = {1, 2}
    /\ ~EvalAllowed(polOut[1].isAllowed, <<"a", "/", "b">>, "write")
    /\ EvalAllowed(polOut[1].isAllowed, <<"a", "/", "a">>, "write")
    /\ Higher(polRules[1].path, polRules[2].path)

\* C4: when a rule listing deny has a pattern matching the path, the policy
\* grants no capability on that path, whatever the priorities, and also
\* when the rule lists grants beside deny.
C4_DenyVetoes ==
    PolicyBuilt =>
        \A path \in Paths, cap \in Capabilities :
            (\E i \in 1..Len(polRules) :
                /\ "deny" \in polRules[i].capabilities
                /\ Matches(polRules[i].path, path))
            => ~EvalPolicy(polOut[1], path, cap)

\* C4 witness: a lower-priority wildcard that lists deny beside read vetoes
\* the read the higher-priority literal allows on "a/b".
C4_Witness ==
    /\ PolicyBuilt
    /\ polRules = << [path |-> <<"a", "/", "b">>, capabilities |-> {"read"}],
                     [path |-> <<"a", "/", "*">>, capabilities |-> {"read", "deny"}] >>
    /\ Higher(polRules[1].path, polRules[2].path)
    /\ EvalAllowed(polOut[1].isAllowed, <<"a", "/", "b">>, "read")
    /\ ~EvalPolicy(polOut[1], <<"a", "/", "b">>, "read")

----------------------------------------------------------------------------
\* checkPrivilegeEscalation

\* The policy changes submitted to the check: the new policy is the current
\* one, or the current one with its last entry removed, with the capability
\* list or the pattern of its last entry replaced, or with an entry added
\* (entries come in every order, so any rule of a policy is the last entry
\* of one).
Changes(P) ==
    {P}
    \cup {SubSeq(P, 1, Len(P) - 1) : i \in 1..(IF Len(P) > 0 THEN 1 ELSE 0)}
    \cup {[P EXCEPT ![i].capabilities = caps] : i \in {Len(P)} \ {0}, caps \in CapLists}
    \cup {Q \in {[P EXCEPT ![i].path = q] : i \in {Len(P)} \ {0}, q \in PolicyPaths} :
             DistinctPaths(Q)}
    \cup {Append(P, r) : r \in {x \in Rules : Len(P) < MaxRules
                                              /\ DistinctPaths(Append(P, x))}}

\* null
Null == <<>>

\* Faulty variant: the assertion without the negated current policy.
AssertedNewOnly(z3, path, cap) ==
    EvalPolicy(z3.newPolicyAst, path, cap)

\* Faulty variant: the negation put on the new policy instead of the
\* current one.
AssertedSwapped(z3, path, cap) ==
    /\ EvalPolicy(z3.currentPolicyAst, path, cap)
    /\ ~EvalPolicy(z3.newPolicyAst, path, cap)

\* The asserted constraint, NOT current_policy AND new_policy, under an
\* interpretation of "path" and "cap".
Asserted(z3, path, cap) ==
    /\ ~EvalPolicy(z3.currentPolicyAst, path, cap)
    /\ EvalPolicy(z3.newPolicyAst, path, cap)

\* The models of the asserted constraint.
Models(z3) ==
    {m \in Paths \X Capabilities : Asserted(z3, m[1], m[2])}

Init ==
    /\ currentRules \in Policies
    /\ newRules \in Changes(currentRules)
    /\ pc = "start"
    /\ held = <<>>
    /\ released = <<>>
    /\ z3PolicyAst = None
    /\ solverResult = None
    /\ ret = None
    /\ IdleCmp /\ IdleRe /\ IdlePol /\ IdleExt

\* The call up to its only suspension point, the awaited solver_check (the
\* code before an await runs to completion): mk_config, mk_context, the
\* two constants, mk_solver and solver_inc_ref, the two buildPolicyMatch
\* calls, ast_to_string, solver_assert. An exception of buildPolicyMatch
\* leaves the function at once: there is no try around it.
Prepare ==
    /\ pc = "start"
    /\ held' = held \o <<"cfg", "ctx", "solver">>
    /\ LET currentPolicy == buildPolicyMatch(currentRules)
           newPolicy == buildPolicyMatch(newRules)
       IN  IF currentPolicy.threw \/ newPolicy.threw
           THEN /\ pc' = "threw"
                /\ ret' = <<[error |-> "Error"]>>
                /\ UNCHANGED z3PolicyAst
           ELSE /\ pc' = "checking"
                /\ z3PolicyAst' = [currentPolicyAst |-> currentPolicy,
                                   newPolicyAst |-> newPolicy]
                /\ UNCHANGED ret
    /\ UNCHANGED <<currentRules, newRules, released, solverResult,
                   cmpVars, reVars, polVars, extVars>>

\* await Z3.solver_check(ctx, solver) settles with the verdict of a
\* decision: Z3_L_TRUE when the asserted constraint has a model, Z3_L_FALSE
\* when it has none.
SolverDecides ==
    /\ pc = "checking"
    /\ solverResult' = IF \E m \in Paths \X Capabilities :
                              Asserted(z3PolicyAst, m[1], m[2])
                       THEN "Z3_L_TRUE" ELSE "Z3_L_FALSE"
    /\ pc' = "checked"
    /\ UNCHANGED <<currentRules, newRules, held, released, z3PolicyAst, ret,
                   cmpVars, reVars, polVars, extVars>>

\* ... with Z3_L_UNDEF: the solver gave up (a resource limit, an incomplete
\* theory), whatever the constraint.
SolverUnknown ==
    /\ pc = "checking"
    /\ solverResult' = "Z3_L_UNDEF"
    /\ pc' = "checked"
    /\ UNCHANGED <<currentRules, newRules, held, released, z3PolicyAst, ret,
                   cmpVars, reVars, polVars, extVars>>

\* ... or rejects: the solver threw. Nothing after the await runs.
SolverThrows ==
    /\ pc = "checking"
    /\ pc' = "threw"
    /\ ret' = <<[error |-> "Error"]>>
    /\ UNCHANGED <<currentRules, newRules, held, released, z3PolicyAst, solverResult,
                   cmpVars, reVars, polVars, extVars>>

\* result === Z3_L_TRUE: solver_get_model and model_inc_ref, the values of
\* "path" and "cap" in the model (any model of the constraint), then
\* model_dec_ref, solver_dec_ref, del_context, return { result: true, ... }.
ReturnEscalation ==
    /\ pc = "checked"
    /\ solverResult = "Z3_L_TRUE"
    /\ \E m \in Models(z3PolicyAst) :
          ret' = <<[result |-> TRUE, path |-> <<m[1]>>, capability |-> <<m[2]>>,
                   z3 |-> z3PolicyAst]>>
    /\ LET acquired == Append(held, "model")
       IN  /\ released' = released \o <<"model", "solver", "ctx">>
           /\ held' = SelectSeq(acquired,
                                LAMBDA h : h \notin {"model", "solver", "ctx"})
    /\ pc' = "returned"
    /\ UNCHANGED <<currentRules, newRules, z3PolicyAst, solverResult,
                   cmpVars, reVars, polVars, extVars>>

\* The else branch (any result but Z3_L_TRUE): solver_dec_ref, del_context,
\* return { result: false, path: null, capability: null, ... }.
ReturnNoEscalation ==
    /\ pc = "checked"
    /\ solverResult # "Z3_L_TRUE"
    /\ released' = released \o <<"solver", "ctx">>
    /\ held' = SelectSeq(held, LAMBDA h : h \notin {"solver", "ctx"})
    /\ ret' = <<[result |-> FALSE, path |-> Null, capability |-> Null,
                 z3 |-> z3PolicyAst]>>
    /\ pc' = "returned"
    /\ UNCHANGED <<currentRules, newRules, z3PolicyAst, solverResult,
                   cmpVars, reVars, polVars, extVars>>

Next ==
    \/ Prepare
    \/ SolverDecides
    \/ SolverUnknown
    \/ SolverThrows
    \/ ReturnEscalation
    \/ ReturnNoEscalation

Spec == Init /\ [][Next]_vars

----------------------------------------------------------------------------
\* Claims about checkPrivilegeEscalation.

\* C1: when the solver's verdict is unknown, the call does not return
\* result = false ("no escalation"); it surfaces an error.
C1_UnknownIsNotNoEscalation ==
    (pc = "returned" /\ solverResult = "Z3_L_UNDEF") => ret[1].result # FALSE

\* What a policy grants, as the specification words it: the non-deny
\* capabilities of the highest-priority allow pattern matching the path,
\* unless a rule listing deny matches the path.
SpecGrants(rules, path, cap) ==
    /\ MatchingAllow(rules, path) # {}
    /\ cap \in rules[TopRule(rules, path)].capabilities \ {"deny"}
    /\ ~\E i \in 1..Len(rules) :
          "deny" \in rules[i].capabilities /\ Matches(rules[i].path, path)

\* (path, cap) is granted by the new policy and not by the current one.
IsEscalation(path, cap) ==
    SpecGrants(newRules, path, cap) /\ ~SpecGrants(currentRules, path, cap)

\* C2: the call returns result = true exactly when some (path, capability)
\* is granted by the new policy and not by the current one; the returned
\* witness is then such a pair; path and capability are null exactly when
\* result = false.
C2_EscalationIffNewGrant ==
    pc = "returned" =>
        /\ ret[1].result = (\E path \in Paths, cap \in Capabilities :
                               IsEscalation(path, cap))
        /\ ret[1].result => /\ ret[1].path # Null
                            /\ ret[1].capability # Null
                            /\ IsEscalation(ret[1].path[1], ret[1].capability[1])
        /\ ~ret[1].result => ret[1].path = Null /\ ret[1].capability = Null

\* C7: at every exit of the call, a return or a throw, none of the context,
\* the solver and the model is still held, and what was released was
\* released in reverse order of acquisition, the context last.
C7_HandlesReleasedOnEveryExit ==
    pc \in {"returned", "threw"} =>
        /\ \A i \in 1..Len(held) : held[i] \notin {"ctx", "solver", "model"}
        /\ released # <<>> => released[Len(released)] = "ctx"
        /\ \A i, j \in 1..Len(released) :
              (i < j /\ released[i] = "solver") => released[j] # "model"

\* The characters section 3 of the specification declares for patterns.
DeclaredAlphabet == wildcardRanges \cup {"/", "+", "*"}

\* An input error: an empty pattern, a pattern with a character outside the
\* declared alphabet, or an empty capability list.
InvalidPolicy(rules) ==
    \E i \in 1..Len(rules) :
        \/ rules[i].path = <<>>
        \/ \E k \in 1..Len(rules[i].path) : rules[i].path[k] \notin DeclaredAlphabet
        \/ rules[i].capabilities = {}

\* C8: a call given an invalid policy never reaches the solver's check and
\* never returns a verdict; it ends with an InvalidPattern error.
C8_InvalidInputRejected ==
    (InvalidPolicy(currentRules) \/ InvalidPolicy(newRules)) =>
        /\ pc \notin {"checking", "checked", "returned"}
        /\ pc = "threw" => ret[1].error = "InvalidPattern"

\* C9: a check of a policy against itself that returns, returns
\* result = false, and the solver never finds a model for it.
C9_NoSelfEscalation ==
    currentRules = newRules =>
        /\ solverResult # "Z3_L_TRUE"
        /\ pc = "returned" => ret[1].result = FALSE

\* C9 witness: a policy that grants read on "a/b" has been checked against
\* itself, the solver answered unsat and the call returned.
C9_Witness ==
    /\ pc = "returned"
    /\ currentRules = newRules
    /\ solverResult = "Z3_L_FALSE"
    /\ SpecGrants(newRules, <<"a", "/", "b">>, "read")
    /\ Len(newRules) = 2
    /\ ret[1].result = FALSE

----------------------------------------------------------------------------
\* Key order of the rules object.

\* The policies with the same pattern-to-capabilities association as P,
\* their keys inserted in any order.
Reorderings(P) ==
    {[i \in 1..Len(P) |-> P[f[i]]] : f \in Permutations(1..Len(P))}

\* C13: for two policy maps with the same pattern-to-capabilities
\* association and different key order, buildPolicyMatch iterates the allow
\* patterns in the same order and builds the same formula (the same
\* diagnostics text), whether the construction succeeds or throws.
C13_KeyOrderIrrelevant ==
    polOut # None =>
        \A Q \in Reorderings(polRules) :
            /\ SortPaths(AllowPaths(Q)) = SortPaths(AllowPaths(polRules))
            /\ buildPolicyMatch(Q) = polOut[1]

----------------------------------------------------------------------------
\* The scenario "wider wildcard": a policy granting read on one segment
\* below a prefix ("secret/app/+") replaced by one granting read on
\* everything below it ("secret/app/*"). The literal prefix, which
\* buildRegexFromPath copies character by character into one literal
\* part, is shortened to the one segment "a/".

ScenarioPrefix == <<"a", "/">>
ScenarioCurrent ==
    << [path |-> ScenarioPrefix \o <<"+">>, capabilities |-> {"read"}] >>
ScenarioNew ==
    << [path |-> ScenarioPrefix \o <<"*">>, capabilities |-> {"read"}] >>
IsScenario == currentRules = ScenarioCurrent /\ newRules = ScenarioNew

\* path has the prefix and a "/" somewhere after it.
SlashAfterPrefix(path) ==
    /\ Len(path) > Len(ScenarioPrefix)
    /\ SubSeq(path, 1, Len(ScenarioPrefix)) = ScenarioPrefix
    /\ \E i \in (Len(ScenarioPrefix) + 1)..Len(path) : path[i] = "/"

\* C12 as stated: in the scenario every (path, capability) pair the new
\* policy admits and the current one does not (every model of the asserted
\* constraint) has a path with a "/" after the prefix, and the check returns
\* an escalation whose witness path is such a path.
C12_WitnessHasSlash ==
    (IsScenario /\ z3PolicyAst # None) =>
        /\ \A m \in Models(z3PolicyAst) : SlashAfterPrefix(m[1])
        /\ pc = "returned" =>
              /\ ret[1].result
              /\ SlashAfterPrefix(ret[1].path[1])

\* C12 as amended: in the scenario every (path, capability) pair the new
\* policy admits and the current one does not has capability read and a
\* path that is the prefix itself or has a "/" after the prefix, and there
\* is such a pair: the solver never answers unsat, a sat answer is returned
\* as an escalation, and the witness of a returned escalation is such a
\* pair.
C12_WitnessIsPrefixOrHasSlash ==
    (IsScenario /\ z3PolicyAst # None) =>
        /\ \A m \in Models(z3PolicyAst) :
              /\ m[2] = "read"
              /\ m[1] = ScenarioPrefix \/ SlashAfterPrefix(m[1])
              /\ IsEscalation(m[1], m[2])
        /\ Models(z3PolicyAst) # {}
        /\ solverResult # "Z3_L_FALSE"
        /\ (pc = "returned" /\ solverResult = "Z3_L_TRUE") => ret[1].result
        /\ (pc = "returned" /\ ret[1].result) =>
              /\ ret[1].capability = <<"read">>
              /\ \/ ret[1].path = <<ScenarioPrefix>>
                 \/ SlashAfterPrefix(ret[1].path[1])

\* C12 witness: the scenario's check has returned an escalation whose
\* witness path is the prefix itself, which the trailing "*" matches (zero
\* characters) and the "+" does not (one or more).
C12_Witness ==
    /\ IsScenario
    /\ pc = "returned"
    /\ solverResult = "Z3_L_TRUE"
    /\ ret[1].result
    /\ ret[1].path = <<ScenarioPrefix>>
    /\ ~SlashAfterPrefix(ret[1].path[1])

----------------------------------------------------------------------------
\* hclPathsToMap

\* Most blocks the policy source has for one path pattern.
MaxBlocks == 2

\* hcl.parseToObject(text)[0].path: an object with one key per path label,
\* its value the array of the blocks written for that label (one element per
\* `path "label" { ... }` block, in source order), each block an object with
\* the attribute capabilities. The object is the sequence of its entries in
\* key order.
HclKeys == { <<"a", "/", "*">>, <<"a", "/", "b">> }
HclBlocks == [capabilities : CapLists]

RECURSIVE BlockListsOfLen(_)
BlockListsOfLen(n) ==
    IF n = 0 THEN {<<>>}
    ELSE {Append(bs, b) : bs \in BlockListsOfLen(n - 1), b \in HclBlocks}

HclValues == UNION {BlockListsOfLen(n) : n \in 1..MaxBlocks}
HclEntries == [key : HclKeys, value : HclValues]

HclObjects ==
    {<<>>} \cup {<<e>> : e \in HclEntries}
           \cup {ef \in HclEntries \X HclEntries : ef[1].key # ef[2].key}

\* paths[key] = value[0].capabilities for each entry.
hclPathsToMap(h) ==
    [i \in 1..Len(h) |->
        [path |-> h[i].key, capabilities |-> h[i].value[1].capabilities]]

InitHcl ==
    /\ hclPaths \in HclObjects
    /\ hclOut = None
    /\ IdleCmp /\ IdleRe /\ IdlePol /\ IdleChk /\ IdleCon /\ IdleUi

\* One call hclPathsToMap(hclPaths).
HclPathsToMap ==
    /\ hclOut = None
    /\ hclOut' = <<hclPathsToMap(hclPaths)>>
    /\ UNCHANGED <<hclPaths, cmpVars, reVars, polVars, chkVars, conVars, uiVars>>

NextHcl == HclPathsToMap

SpecHcl == InitHcl /\ [][NextHcl]_vars

\* The capabilities of all the blocks written for one path label.
AllBlockCaps(value) == UNION {value[k].capabilities : k \in 1..Len(value)}

\* C11: the policy map hclPathsToMap hands to the checker associates each
\* path pattern with the union of the capability lists of all the blocks the
\* source has for that pattern.
C11_UnionOfBlocks ==
    hclOut # None =>
        /\ Len(hclOut[1]) = Len(hclPaths)
        /\ \A i \in 1..Len(hclPaths) :
              CapsOf(hclOut[1], hclPaths[i].key) = AllBlockCaps(hclPaths[i].value)

----------------------------------------------------------------------------
\* Several checkPrivilegeEscalation calls in flight. A call runs without
\* interruption up to its await and again from the settling of the awaited
\* check to its return; between the two, other calls run. The calls share
\* the Z3 module (the object init() resolved to), which hands out the
\* handles; the handles a call holds are in its local constants.

\* Most calls in flight.
MaxCalls == 2

CallIds == 1..MaxCalls

\* The arguments of the calls: the wider-wildcard change (an escalation),
\* the same policy twice (none), and a policy with an empty pattern (the
\* construction throws).
CallInputs ==
    { <<ScenarioCurrent, ScenarioNew>>,
      <<ScenarioNew, ScenarioNew>>,
      <<ScenarioCurrent, <<[path |-> <<>>, capabilities |-> {"read"}]>>>> }

\* No handle yet.
NoHandle == 0

\* The handles of z3Objects: a handle is the position of its object.
Handles == 1..Len(z3Objects)

\* Faulty variants: the context and the solver kept in variables of the
\* enclosing initZ3Checker scope, which every call overwrites, instead of
\* in constants of the call.
LatestOfKind(kind) ==
    IF \E h \in Handles : z3Objects[h].kind = kind
    THEN CHOOSE h \in Handles :
            /\ z3Objects[h].kind = kind
            /\ \A g \in Handles : z3Objects[g].kind = kind => g <= h
    ELSE NoHandle
CtxInEnclosingScope(c) == LatestOfKind("ctx")
SolverInEnclosingScope(c) == LatestOfKind("solver")

\* const ctx, const solver: the call's own constants.
CtxOf(c) == calls[c].ctx
SolverOf(c) == calls[c].solver

\* A new object of the Z3 module. owner (the call that created it) and
\* usedBy (the calls that asserted into it, read a model from it or
\* released it) record who touched the object; the program does not read
\* them.
NewObject(kind, c) ==
    [kind |-> kind, owner |-> c, live |-> TRUE, asserted |-> None, usedBy |-> {}]

InitCalls ==
    /\ calls \in [CallIds ->
                    {[pc |-> "start", currentRules |-> in[1], newRules |-> in[2],
                      ctx |-> NoHandle, solver |-> NoHandle,
                      z3PolicyAst |-> None, solverResult |-> None,
                      ret |-> None] : in \in CallInputs}]
    /\ z3Objects = <<>>
    /\ IdleCmp /\ IdleRe /\ IdlePol /\ IdleChk /\ IdleHcl /\ IdleUi

\* What is left unchanged by a step of the calls in flight.
CallsFrame == UNCHANGED <<cmpVars, reVars, polVars, chkVars, hclVars, uiVars>>

\* The object h read and released by call c: solver_get_model,
\* solver_dec_ref, del_context.
Released(objects, h, c) ==
    [objects EXCEPT ![h].usedBy = @ \cup {c}, ![h].live = FALSE]

\* The two formulas a call builds from its arguments (tabulated once per
\* pair of arguments), None when the construction throws.
FormulasOf ==
    [in \in CallInputs |->
        LET currentPolicy == buildPolicyMatch(in[1])
            newPolicy == buildPolicyMatch(in[2])
        IN  IF currentPolicy.threw \/ newPolicy.threw THEN None
            ELSE <<[currentPolicyAst |-> currentPolicy, newPolicyAst |-> newPolicy]>>]

\* The models of each constraint the calls assert (Models, tabulated once).
ModelsOf ==
    [z3 \in {FormulasOf[in][1] : in \in {i \in CallInputs : FormulasOf[i] # None}} |->
        Models(z3)]

\* The models of the constraint asserted into the solver h.
ModelsIn(h) ==
    IF z3Objects[h].asserted = None THEN {}
    ELSE ModelsOf[z3Objects[h].asserted[1]]

\* Call c from its start to its await: mk_context, mk_solver and
\* solver_inc_ref (two new objects, their handles in the call's constants),
\* the two buildPolicyMatch calls, solver_assert into the new solver, and
\* the start of solver_check on it. A throw of buildPolicyMatch ends the
\* call.
CallPrepare(c) ==
    /\ calls[c].pc = "start"
    /\ LET ctx == Len(z3Objects) + 1
           solver == Len(z3Objects) + 2
           built == FormulasOf[<<calls[c].currentRules, calls[c].newRules>>]
           ast == built[1]
       IN  IF built = None
           THEN /\ z3Objects' = z3Objects \o <<NewObject("ctx", c), NewObject("solver", c)>>
                /\ calls' = [calls EXCEPT ![c].pc = "threw",
                                          ![c].ctx = ctx,
                                          ![c].solver = solver,
                                          ![c].ret = <<[error |-> "Error"]>>]
           ELSE /\ z3Objects' =
                      z3Objects \o <<NewObject("ctx", c),
                                     [NewObject("solver", c) EXCEPT
                                         !.asserted = <<ast>>, !.usedBy = {c}]>>
                /\ calls' = [calls EXCEPT ![c].pc = "checking",
                                          ![c].ctx = ctx,
                                          ![c].solver = solver,
                                          ![c].z3PolicyAst = ast]
    /\ CallsFrame

\* The solver_check call c started settles with a decision on the solver
\* it was started on.
CallSolverDecides(c) ==
    /\ calls[c].pc = "checking"
    /\ calls' = [calls EXCEPT
                    ![c].pc = "checked",
                    ![c].solverResult = IF ModelsIn(calls[c].solver) # {}
                                        THEN "Z3_L_TRUE" ELSE "Z3_L_FALSE"]
    /\ UNCHANGED z3Objects
    /\ CallsFrame

\* ... with Z3_L_UNDEF.
CallSolverUnknown(c) ==
    /\ calls[c].pc = "checking"
    /\ calls' = [calls EXCEPT ![c].pc = "checked",
                              ![c].solverResult = "Z3_L_UNDEF"]
    /\ UNCHANGED z3Objects
    /\ CallsFrame

\* ... or rejects.
CallSolverThrows(c) ==
    /\ calls[c].pc = "checking"
    /\ calls' = [calls EXCEPT ![c].pc = "threw",
                              ![c].ret = <<[error |-> "Error"]>>]
    /\ UNCHANGED z3Objects
    /\ CallsFrame

\* Call c from the settling with Z3_L_TRUE to its return: solver_get_model
\* on its solver, the model's values, model_dec_ref, solver_dec_ref,
\* del_context.
CallReturnEscalation(c) ==
    /\ calls[c].pc = "checked"
    /\ calls[c].solverResult = "Z3_L_TRUE"
    /\ \E m \in ModelsIn(SolverOf(c)) :
          calls' = [calls EXCEPT
                       ![c].pc = "returned",
                       ![c].ret = <<[result |-> TRUE, path |-> <<m[1]>>,
                                    capability |-> <<m[2]>>,
                                    z3 |-> calls[c].z3PolicyAst]>>]
    /\ z3Objects' =
          Released(Released(z3Objects, SolverOf(c), c), CtxOf(c), c)
              \o <<[NewObject("model", c) EXCEPT !.live = FALSE, !.usedBy = {c}]>>
    /\ CallsFrame

\* Call c from the settling with another result to its return:
\* solver_dec_ref, del_context.
CallReturnNoEscalation(c) ==
    /\ calls[c].pc = "checked"
    /\ calls[c].solverResult # "Z3_L_TRUE"
    /\ calls' = [calls EXCEPT
                    ![c].pc = "returned",
                    ![c].ret = <<[result |-> FALSE, path |-> Null,
                                 capability |-> Null,
                                 z3 |-> calls[c].z3PolicyAst]>>]
    /\ z3Objects' = Released(Released(z3Objects, SolverOf(c), c), CtxOf(c), c)
    /\ CallsFrame

NextCalls ==
    \E c \in CallIds :
        \/ CallPrepare(c)
        \/ CallSolverDecides(c)
        \/ CallSolverUnknown(c)
        \/ CallSolverThrows(c)
        \/ CallReturnEscalation(c)
        \/ CallReturnNoEscalation(c)

SpecCalls == InitCalls /\ [][NextCalls]_vars

\* What call c returns when it runs alone and the solver settles with
\* result: the outcomes of checkPrivilegeEscalation on c's arguments.
AloneFormulas(c) == FormulasOf[<<calls[c].currentRules, calls[c].newRules>>][1]

AloneReturns(c, result) ==
    IF result = "Z3_L_TRUE"
    THEN {[result |-> TRUE, path |-> <<m[1]>>, capability |-> <<m[2]>>,
           z3 |-> AloneFormulas(c)] : m \in ModelsOf[AloneFormulas(c)]}
    ELSE {[result |-> FALSE, path |-> Null, capability |-> Null,
           z3 |-> AloneFormulas(c)]}

\* C14: in every interleaving of the calls in flight, the handles a call
\* holds are of objects it created, no object is asserted into, read or
\* released by a call other than its creator, a decided verdict is the one
\* the call's own constraint has, and what a call returns is what it
\* returns alone for the same answer of the solver.
C14_CallsAreIsolated ==
    /\ \A h \in Handles : z3Objects[h].usedBy \subseteq {z3Objects[h].owner}
    /\ \A c \in CallIds :
          /\ calls[c].pc # "start" =>
                /\ z3Objects[CtxOf(c)].kind = "ctx"
                /\ z3Objects[CtxOf(c)].owner = c
                /\ z3Objects[SolverOf(c)].kind = "solver"
                /\ z3Objects[SolverOf(c)].owner = c
          /\ (/\ calls[c].pc \in {"checked", "returned"}
              /\ calls[c].solverResult # "Z3_L_UNDEF") =>
                (calls[c].solverResult = "Z3_L_TRUE")
                    = (ModelsOf[AloneFormulas(c)] # {})
          /\ calls[c].pc = "returned" =>
                calls[c].ret[1] \in AloneReturns(c, calls[c].solverResult)

\* C14 witness: two calls were suspended at their awaits at the same time
\* (the second call's context and solver were created before the first
\* call's model was read), and both returned, the first an escalation, the
\* second none on an unsat verdict.
C14_Witness ==
    /\ calls[1].pc = "returned" /\ calls[2].pc = "returned"
    /\ calls[1].ret[1].result = TRUE
    /\ calls[2].solverResult = "Z3_L_FALSE"
    /\ calls[2].ret[1].result = FALSE
    /\ CtxOf(1) < CtxOf(2)
    /\ \E h \in Handles :
          /\ z3Objects[h].kind = "model"
          /\ z3Objects[h].owner = 1
          /\ h > SolverOf(2)
    /\ \A h \in Handles : ~z3Objects[h].live

----------------------------------------------------------------------------
\* EscalationPolicyChecker: useEffect, the text areas, handleCheck.

\* The contents of a text area, as hcl.parseToObject reads it: text that
\* parseToObject(text)[0].path throws on, or a policy source with its
\* parsed path object.
InvalidText == [valid |-> FALSE, path |-> <<>>]
PolicyText(entries) == [valid |-> TRUE, path |-> entries]
OneBlock(key, caps) == [key |-> key, value |-> <<[capabilities |-> caps]>>]

\* exampleCurrentPolicy and exampleNewPolicy (the prefix
\* "secret/app/cookiebot/" shortened to "a/", "admin" to "b"), and a source
\* whose only path label is the empty string.
ExampleCurrentPolicy ==
    PolicyText(<<OneBlock(<<"a", "/", "*">>, {"read"}),
                 OneBlock(<<"a", "/", "b">>, {"deny"})>>)
ExampleNewPolicy == PolicyText(<<OneBlock(<<"a", "/", "*">>, {"read"})>>)
EmptyLabelPolicy == PolicyText(<<OneBlock(<<>>, {"read"})>>)

PolicyTexts ==
    {ExampleCurrentPolicy, ExampleNewPolicy, EmptyLabelPolicy, InvalidText}

\* The policy maps handleCheck hands to the checker.
ParsedPolicies == {hclPathsToMap(t.path) : t \in {u \in PolicyTexts : u.valid}}

\* The ways the promise checker.checkPrivilegeEscalation(current, new)
\* settles (tabulated once per pair of arguments): rejected when the
\* construction throws or the solver rejects, otherwise resolved with
\* result true and a model when the solver answers sat, with result false
\* when it answers unsat or unknown.
Rejected == [settled |-> "rejected", value |-> None]
Resolved(v) == [settled |-> "resolved", value |-> <<v>>]

Settlements ==
    [args \in ParsedPolicies \X ParsedPolicies |->
        LET current == buildPolicyMatch(args[1])
            new == buildPolicyMatch(args[2])
            z3 == [currentPolicyAst |-> current, newPolicyAst |-> new]
        IN  IF current.threw \/ new.threw THEN {Rejected}
            ELSE {Rejected}
                 \cup {Resolved([result |-> FALSE, path |-> Null,
                                 capability |-> Null, z3 |-> z3])}
                 \cup {Resolved([result |-> TRUE, path |-> <<m[1]>>,
                                 capability |-> <<m[2]>>, z3 |-> z3]) :
                           m \in Models(z3)}]

\* useState initial values; useEffect has called initZ3Checker().
InitUi ==
    /\ checker = "{}"
    /\ isLoading = TRUE
    /\ isChecking = FALSE
    /\ error = None
    /\ currentPolicyText = ExampleCurrentPolicy
    /\ newPolicyText = ExampleNewPolicy
    /\ policyCheckResults = None
    /\ initZ3 = "pending"
    /\ hc = "idle"
    /\ objs = None
    /\ pending = <<>>
    /\ exit = "none"
    /\ IdleCmp /\ IdleRe /\ IdlePol /\ IdleChk /\ IdleHcl /\ IdleCon

UiFrame == UNCHANGED <<cmpVars, reVars, polVars, chkVars, hclVars, conVars>>

\* No handler is executing: an event or a settled promise can be handled.
Quiet == hc = "idle"

\* initZ3Checker() resolves: .then(s => { setIsLoading(false); setChecker(s) })
InitZ3Resolves ==
    /\ Quiet
    /\ initZ3 = "pending"
    /\ initZ3' = "resolved"
    /\ isLoading' = FALSE
    /\ checker' = "checker"
    /\ UNCHANGED <<isChecking, error, currentPolicyText, newPolicyText,
                   policyCheckResults, hc, objs, pending, exit>>
    /\ UiFrame

\* initZ3Checker() rejects: .catch(e => { setIsLoading(false); setError(...) })
InitZ3Rejects ==
    /\ Quiet
    /\ initZ3 = "pending"
    /\ initZ3' = "rejected"
    /\ isLoading' = FALSE
    /\ error' = <<"Failed to load Z3 checker">>
    /\ UNCHANGED <<checker, isChecking, currentPolicyText, newPolicyText,
                   policyCheckResults, hc, objs, pending, exit>>
    /\ UiFrame

\* The text areas are rendered once isLoading is false; onChange sets the
\* text.
EditCurrentPolicy ==
    /\ Quiet
    /\ ~isLoading
    /\ \E t \in PolicyTexts \ {currentPolicyText} : currentPolicyText' = t
    /\ UNCHANGED <<checker, isLoading, isChecking, error, newPolicyText,
                   policyCheckResults, initZ3, hc, objs, pending, exit>>
    /\ UiFrame

EditNewPolicy ==
    /\ Quiet
    /\ ~isLoading
    /\ \E t \in PolicyTexts \ {newPolicyText} : newPolicyText' = t
    /\ UNCHANGED <<checker, isLoading, isChecking, error, currentPolicyText,
                   policyCheckResults, initZ3, hc, objs, pending, exit>>
    /\ UiFrame

\* Faulty variant: the button without its disabled attribute.
ButtonNeverDisabled == ~isLoading

\* The check button is rendered once isLoading is false, and is disabled
\* while isChecking.
ButtonEnabled == ~isLoading /\ ~isChecking

\* onClick={handleCheck}, up to the first try: without a checker the run
\* sets the error and returns; otherwise setIsChecking(true),
\* setPolicyCheckResults(undefined), setError(undefined).
HandleCheck ==
    /\ Quiet
    /\ ButtonEnabled
    /\ IF checker = "{}"
       THEN /\ error' = <<"Checker is not yet available.">>
            /\ exit' = "unavailable"
            /\ UNCHANGED <<isChecking, policyCheckResults, hc>>
       ELSE /\ isChecking' = TRUE
            /\ policyCheckResults' = None
            /\ error' = None
            /\ hc' = "parseCurrent"
            /\ exit' = "running"
    /\ UNCHANGED <<checker, isLoading, currentPolicyText, newPolicyText,
                   initZ3, objs, pending>>
    /\ UiFrame

\* Faulty variant: the catch of the second try without its
\* setIsChecking(false).
ParseNewPolicyLeavesChecking ==
    /\ hc = "parseNew"
    /\ IF ~newPolicyText.valid
       THEN /\ error' = <<"Invalid HCL in new policy">>
            /\ exit' = "invalidNew"
            /\ UNCHANGED <<pending, isChecking>>
       ELSE /\ pending' = Append(pending,
                                 <<objs[1], hclPathsToMap(newPolicyText.path)>>)
            /\ UNCHANGED <<error, isChecking, exit>>
    /\ hc' = "idle"
    /\ objs' = None
    /\ UNCHANGED <<checker, isLoading, currentPolicyText, newPolicyText,
                   policyCheckResults, initZ3>>
    /\ UiFrame

\* The first try: currentPolicyObject =
\* hclPathsToMap(hcl.parseToObject(currentPolicy)[0].path); its catch sets
\* the error, setIsChecking(false) and returns.
ParseCurrentPolicy ==
    /\ hc = "parseCurrent"
    /\ IF ~currentPolicyText.valid
       THEN /\ error' = <<"Invalid HCL in current policy">>
            /\ isChecking' = FALSE
            /\ hc' = "idle"
            /\ exit' = "invalidCurrent"
            /\ UNCHANGED objs
       ELSE /\ objs' = <<hclPathsToMap(currentPolicyText.path)>>
            /\ hc' = "parseNew"
            /\ UNCHANGED <<error, isChecking, exit>>
    /\ UNCHANGED <<checker, isLoading, currentPolicyText, newPolicyText,
                   policyCheckResults, initZ3, pending>>
    /\ UiFrame

\* The second try, likewise for newPolicy, and when it succeeds the call
\* checker.checkPrivilegeEscalation(currentPolicyObject, newPolicyObject),
\* whose promise the run awaits.
ParseNewPolicy ==
    /\ hc = "parseNew"
    /\ IF ~newPolicyText.valid
       THEN /\ error' = <<"Invalid HCL in new policy">>
            /\ isChecking' = FALSE
            /\ exit' = "invalidNew"
            /\ UNCHANGED pending
       ELSE /\ pending' = Append(pending,
                                 <<objs[1], hclPathsToMap(newPolicyText.path)>>)
            /\ UNCHANGED <<error, isChecking, exit>>
    /\ hc' = "idle"
    /\ objs' = None
    /\ UNCHANGED <<checker, isLoading, currentPolicyText, newPolicyText,
                   policyCheckResults, initZ3>>
    /\ UiFrame

\* pending without its i-th promise.
Without(seq, i) == SubSeq(seq, 1, i - 1) \o SubSeq(seq, i + 1, Len(seq))

\* An awaited promise resolves: setPolicyCheckResults(results), then the
\* finally block, setIsChecking(false).
CheckResolves ==
    /\ Quiet
    /\ \E i \in 1..Len(pending) :
          /\ \E s \in Settlements[pending[i]] :
                /\ s.settled = "resolved"
                /\ policyCheckResults' = s.value
          /\ pending' = Without(pending, i)
    /\ isChecking' = FALSE
    /\ exit' = "verdict"
    /\ UNCHANGED <<checker, isLoading, error, currentPolicyText, newPolicyText,
                   initZ3, hc, objs>>
    /\ UiFrame

\* An awaited promise rejects (any can: the construction or the solver
\* throws): the catch sets the error, then the finally block,
\* setIsChecking(false).
CheckRejects ==
    /\ Quiet
    /\ \E i \in 1..Len(pending) : pending' = Without(pending, i)
    /\ error' = <<"An error occurred during check">>
    /\ isChecking' = FALSE
    /\ exit' = "threw"
    /\ UNCHANGED <<checker, isLoading, currentPolicyText, newPolicyText,
                   policyCheckResults, initZ3, hc, objs>>
    /\ UiFrame

NextUi ==
    \/ InitZ3Resolves
    \/ InitZ3Rejects
    \/ EditCurrentPolicy
    \/ EditNewPolicy
    \/ HandleCheck
    \/ ParseCurrentPolicy
    \/ ParseNewPolicy
    \/ CheckResolves
    \/ CheckRejects

SpecUi == InitUi /\ [][NextUi]_vars

\* A handler that has started runs to its end or to its await, and every
\* awaited check settles: it does not stay for ever in the state where it
\* can reject (it resolves or it rejects).
SpecUiFair ==
    /\ SpecUi
    /\ WF_vars(ParseCurrentPolicy)
    /\ WF_vars(ParseNewPolicy)
    /\ WF_vars(CheckRejects)

\* C16: the error message and a verdict (policyCheckResults) are never
\* both set, and after a handleCheck run that failed (a parse error or a
\* thrown check error) the error is set and no verdict is.
C16_ErrorOrVerdict ==
    /\ ~(error # None /\ policyCheckResults # None)
    /\ exit \in {"invalidCurrent", "invalidNew", "threw"} =>
          /\ error # None
          /\ policyCheckResults = None

\* C16 witness: a check has thrown while the texts were being edited, after
\* the checker loaded: its error is shown and no verdict.
C16_Witness ==
    /\ checker = "checker"
    /\ exit = "threw"
    /\ error = <<"An error occurred during check">>
    /\ policyCheckResults = None
    /\ ~isChecking
    /\ ~newPolicyText.valid

\* C17: a handleCheck run that set isChecking is followed by isChecking
\* being false again, whichever way the run ends; and as long as there is
\* no checker, isChecking is not set, no check is awaited, and a run ends
\* with the error "Checker is not yet available.".
C17_CheckingEnds ==
    /\ (isChecking = TRUE) ~> (isChecking = FALSE)
    /\ [](checker = "{}" =>
            /\ isChecking = FALSE
            /\ pending = <<>>
            /\ hc = "idle"
            /\ exit \in {"none", "unavailable"}
            /\ exit = "unavailable" => error = <<"Checker is not yet available.">>)

\* C17 witness: a run has set isChecking and awaits its check.
C17_Witness ==
    /\ isChecking = TRUE
    /\ hc = "idle"
    /\ Len(pending) = 1
    /\ exit = "running"
    /\ error = None

====
